---- MODULE Spec2Model ----
(***************************************************************************)
(* Model of scripts/build-data.js: the one-shot build() pipeline that      *)
(* merges the agent catalog, the subagent frontmatter files and the        *)
(* portfolio catalog into agents.json and data.js.                         *)
(*                                                                         *)
(* Conventions.                                                            *)
(*  - A JS string is a TLA+ string; non-ASCII literals of the source are   *)
(*    written with ASCII stand-ins (noted where they occur).  A keyword is *)
(*    a sequence of UTF-16 code units, because the keyword filter tests    *)
(*    code-unit ranges.                                                    *)
(*  - JS undefined (an absent regex group, a missing property) is the      *)
(*    sentinel Undefined; JS null is the record Null.                      *)
(*  - A plain-object lookup obj[k] is modelled on own keys only: the       *)
(*    identifiers of the model are not names of Object.prototype           *)
(*    properties.                                                          *)
(*  - A source text is the sequence of the blocks the extractor's regular  *)
(*    expressions scan, in text order; a field of a block is either        *)
(*    absent from the text or present with its captured value.             *)
(***************************************************************************)
EXTENDS Naturals, Sequences, FiniteSets, TLC

VARIABLES
    fs,               \* the files build() reads: status and content of each
    pc,               \* position of build() (line 112..194)
    translations,     \* line 113
    archMap,          \* line 114
    catalogAgents,    \* line 116
    subagents,        \* line 117
    portfolio,        \* line 118
    connectionIndex,  \* line 121
    agents,           \* line 132
    data,             \* line 184: { meta, categories, deployTargets, agents }
    agentsJson,       \* public/data/agents.json as written (line 187)
    dataJs,           \* public/js/data.js as written (line 190)
    error,            \* the resource whose read, parse or write threw, or ""
    allAgents,        \* catalog.js line 5
    activeCategory,   \* catalog.js line 6
    activeDeploy,     \* catalog.js line 7
    searchQuery,      \* catalog.js line 8, as a sequence of UTF-16 code units
    dom               \* the page: tabs, deploy pills, their classes, the card grid

\* The state of the page that shows the catalog (public/js/catalog.js).
page == <<allAgents, activeCategory, activeDeploy, searchQuery, dom>>

vars == <<fs, pc, translations, archMap, catalogAgents, subagents, portfolio,
          connectionIndex, agents, data, agentsJson, dataJs, error, page>>

----------------------------------------------------------------------------
(* Bounds of the model *)

MaxBlocks == 2
MaxEdges == 2
MaxFiles == 2

----------------------------------------------------------------------------
(* JS values *)

Undefined == "<undefined>"
Null == [null |-> TRUE]

\* JS truthiness of a string-or-undefined value: undefined and '' are falsy.
Truthy(v) == v # Undefined /\ v # ""

\* JS  a || b  on string-or-undefined values.
Or(a, b) == IF Truthy(a) THEN a ELSE b

Range(s) == {s[i] : i \in 1..Len(s)}

SeqsUpTo(S, n) == UNION {[1..k -> S] : k \in 0..n}

\* Insertion into a JS Set, kept as the sequence of its elements in
\* insertion order (the order the spread [...set] yields).
SetAdd(s, x) == IF x \in Range(s) THEN s ELSE Append(s, x)

\* obj[k] = v on a plain object kept as a function on its own keys.
Put(obj, k, v) == [x \in DOMAIN obj \cup {k} |-> IF x = k THEN v ELSE obj[x]]

EmptyObj == [x \in {} |-> Undefined]

----------------------------------------------------------------------------
(* Source 1: the agent catalog (parseCatalog, lines 17-37) *)

\* The first block at or after block i whose text holds a field the search
\* expression matches: src.substring(m.index).match(...) scans from the start
\* of the matched block to the end of the text (lines 25 and 30).
FirstWith(src, i, field) ==
    LET js == {j \in i..Len(src) : src[j][field].present}
    IN  IF js = {} THEN 0 ELSE CHOOSE j \in js : \A k \in js : j <= k

\* u.replace(/&lt;/g, '<').replace(/&gt;/g, '>') on the usage strings of the model.
Unescape(u) ==
    CASE u = "/run &lt;id&gt;" -> "/run <id>"
      [] u = "ask &lt;q&gt;"   -> "ask <q>"
      [] OTHER                 -> u

\* Lines 25-28: the keywords of the match starting at block i.
KeywordsAt(src, i) ==
    LET j == FirstWith(src, i, "keywords")
    IN  IF j = 0 THEN <<>> ELSE src[j].keywords.items

\* Lines 30-33: the usage examples of the match starting at block i.
UsageAt(src, i) ==
    LET j == FirstWith(src, i, "usage")
    IN  IF j = 0 THEN <<>>
        ELSE [n \in 1..Len(src[j].usage.items) |-> Unescape(src[j].usage.items[n])]

\* Line 34: the record pushed for the match at block i.
AgentRecord(src, i) ==
    [id       |-> src[i].id,
     name     |-> src[i].name,
     category |-> src[i].category,
     desc     |-> src[i].desc,
     deploy   |-> Or(src[i].deploy, "Local"),
     usage    |-> UsageAt(src, i),
     keywords |-> KeywordsAt(src, i)]

\* Lines 19-36: one record per block the head expression of line 20 matches,
\* in text order.
RECURSIVE CatalogFrom(_, _)
CatalogFrom(src, i) ==
    IF i > Len(src) THEN <<>>
    ELSE IF src[i].head THEN <<AgentRecord(src, i)>> \o CatalogFrom(src, i + 1)
         ELSE CatalogFrom(src, i + 1)

parseCatalog(src) == CatalogFrom(src, 1)

----------------------------------------------------------------------------
(* Source 2: the subagent files (parseSubagents, lines 40-60) *)

\* t.trim() on the tool names of the model.
Trim(t) ==
    CASE t = " Grep" -> "Grep"
      [] t = "Read " -> "Read"
      [] OTHER       -> t

\* Lines 53-56: the entry stored for a file.
SubagentConfig(f) ==
    [model |-> Or(f.model, "sonnet"),
     tools |-> IF f.tools.present
               THEN [n \in 1..Len(f.tools.parts) |-> Trim(f.tools.parts[n])]
               ELSE <<>>]

\* SubagentsFrom with the first file of a name kept: a later file of the same
\* name does not replace the entry.
RECURSIVE SubagentsFromFirstWins(_, _, _)
SubagentsFromFirstWins(files, i, subs) ==
    IF i > Len(files) THEN subs
    ELSE LET f == files[i]
         IN  IF f.md /\ f.fm /\ Truthy(f.name) /\ f.name \notin DOMAIN subs
             THEN SubagentsFromFirstWins(files, i + 1, Put(subs, f.name, SubagentConfig(f)))
             ELSE SubagentsFromFirstWins(files, i + 1, subs)

\* Lines 44-58: the loop over the directory listing, in enumeration order.
RECURSIVE SubagentsFrom(_, _, _)
SubagentsFrom(files, i, subs) ==
    IF i > Len(files) THEN subs
    ELSE LET f == files[i]
         IN  IF f.md /\ f.fm /\ Truthy(f.name)
             THEN SubagentsFrom(files, i + 1, Put(subs, f.name, SubagentConfig(f)))
             ELSE SubagentsFrom(files, i + 1, subs)

parseSubagents(files) == SubagentsFrom(files, 1, EmptyObj)

----------------------------------------------------------------------------
(* Source 3: the portfolio catalog (parsePortfolio, lines 63-85) *)

\* Line 82
ProjectHighlight(b) ==
    [title      |-> b.title,
     oneliner   |-> b.oneliner,
     highlights |-> b.highlights,
     tags       |-> b.tags,
     inMaster   |-> b.inMaster]

\* Lines 67-83
RECURSIVE PortfolioFrom(_, _, _)
PortfolioFrom(blocks, i, projects) ==
    IF i > Len(blocks) THEN projects
    ELSE LET b == blocks[i]
         IN  IF b.id = Undefined
             THEN PortfolioFrom(blocks, i + 1, projects)
             ELSE PortfolioFrom(blocks, i + 1, Put(projects, b.id, ProjectHighlight(b)))

parsePortfolio(blocks) == PortfolioFrom(blocks, 1, EmptyObj)

----------------------------------------------------------------------------
(* Lookup tables (lines 88-109) *)

\* obj[k] on a plain object of strings: undefined when k is no own key.
Get(obj, k) == IF k \in DOMAIN obj THEN obj[k] ELSE Undefined

\* Lines 88-98.  The icons are emoji in the source; the values here are
\* their names.
CATEGORY_ICONS ==
    [c \in {"Production", "Infrastructure", "Content", "Development", "Business",
            "Finance", "Analytics", "Learning", "Orchestration"} |->
        CASE c = "Production"     -> "factory"
          [] c = "Infrastructure" -> "wrench"
          [] c = "Content"        -> "memo"
          [] c = "Development"    -> "laptop"
          [] c = "Business"       -> "briefcase"
          [] c = "Finance"        -> "moneybag"
          [] c = "Analytics"      -> "barchart"
          [] c = "Learning"       -> "books"
          [] c = "Orchestration"  -> "link"]

\* Lines 101-109.  "Rokeol" stands for the Hangul key of line 107.
DEPLOY_NORMALIZE ==
    [d \in {"Railway", "Render + GitHub Pages", "Render", "Cloudflare Worker",
            "WSL systemd", "Rokeol", "Local"} |->
        CASE d = "Railway"               -> "Railway"
          [] d = "Render + GitHub Pages" -> "Render"
          [] d = "Render"                -> "Render"
          [] d = "Cloudflare Worker"     -> "Cloudflare"
          [] d = "WSL systemd"           -> "WSL"
          [] d = "Rokeol"                -> "Local"
          [] d = "Local"                 -> "Local"]

\* name.toLowerCase() (line 163) on the category names of the model.
ToLowerCase(name) ==
    CASE name = "Production" -> "production"
      [] name = "Content"    -> "content"
      [] name = "Misc"       -> "misc"
      [] OTHER               -> name

----------------------------------------------------------------------------
(* Connection index (lines 120-129) *)

\* AddTarget without line 127: the edge is recorded at its source only.
AddTargetOneWay(idx, from, to) ==
    LET idx1 == Put(idx, from, SetAdd(idx[from], to))
    IN  IF to \in DOMAIN idx1 THEN idx1 ELSE Put(idx1, to, <<>>)

\* Lines 125-127: one target of one edge.
AddTarget(idx, from, to) ==
    LET idx1 == Put(idx, from, SetAdd(idx[from], to))
        idx2 == IF to \in DOMAIN idx1 THEN idx1 ELSE Put(idx1, to, <<>>)
    IN  Put(idx2, to, SetAdd(idx2[to], from))

\* Lines 124-128: the inner loop over conn.to, from target k on.
RECURSIVE AddTargets(_, _, _, _)
AddTargets(idx, from, tos, k) ==
    IF k > Len(tos) THEN idx
    ELSE AddTargets(AddTarget(idx, from, tos[k]), from, tos, k + 1)

\* Lines 123-128: one edge list {from, to: [...]}.
AddConn(idx, conn) ==
    LET idx0 == IF conn.from \in DOMAIN idx THEN idx ELSE Put(idx, conn.from, <<>>)
    IN  AddTargets(idx0, conn.from, conn.to, 1)

\* Lines 121-129: the loop over archMap.connections.
RECURSIVE ConnectionIndexFrom(_, _, _)
ConnectionIndexFrom(conns, i, idx) ==
    IF i > Len(conns) THEN idx
    ELSE ConnectionIndexFrom(conns, i + 1, AddConn(idx, conns[i]))

ConnectionIndex(conns) == ConnectionIndexFrom(conns, 1, EmptyObj)

----------------------------------------------------------------------------
(* Merge (lines 131-155) *)

\* Line 144: /[\u3131-\uD79D]/.test(k), k a sequence of UTF-16 code units.
InHangulRange(k) == \E n \in 1..Len(k) : k[n] >= 12593 /\ k[n] <= 55197

\* Line 144: a.keywords.filter(...)
RECURSIVE FilterKeywords(_)
FilterKeywords(ks) ==
    IF ks = <<>> THEN <<>>
    ELSE IF ~InHangulRange(Head(ks)) THEN <<Head(ks)>> \o FilterKeywords(Tail(ks))
         ELSE FilterKeywords(Tail(ks))

\* Line 140
CategoryIcon(category) ==
    IF category \in DOMAIN CATEGORY_ICONS THEN CATEGORY_ICONS[category] ELSE "package"

\* Line 141
Description(a, tr) == Or(Get(tr, a.id), a.desc)

\* Deploy without the table of lines 101-109.
DeployUnnormalized(a) == a.deploy

\* Line 142
Deploy(a) == Or(Get(DEPLOY_NORMALIZE, a.deploy), a.deploy)

\* Type with the subagent looked up by the agent's name, not its id.
TypeByName(a, subs) == IF a.name \in DOMAIN subs THEN "subagent" ELSE "standalone"

\* Line 145
Type(a, subs) == IF a.id \in DOMAIN subs THEN "subagent" ELSE "standalone"

\* Line 146
Subagent(a, subs) == IF a.id \in DOMAIN subs THEN subs[a.id] ELSE Null

\* Lines 147-152
Project(a, projects) ==
    IF a.id \in DOMAIN projects
    THEN [title      |-> projects[a.id].title,
          highlights |-> projects[a.id].highlights,
          tags       |-> projects[a.id].tags,
          inMaster   |-> projects[a.id].inMaster]
    ELSE Null

\* Lines 135 and 153
Connections(a, idx) == IF a.id \in DOMAIN idx THEN idx[a.id] ELSE <<>>

\* Lines 136-154: the merged agent of one catalog record.
MergedAgent(a, tr, subs, projects, idx) ==
    [id           |-> a.id,
     name         |-> a.name,
     category     |-> a.category,
     categoryIcon |-> CategoryIcon(a.category),
     description  |-> Description(a, tr),
     deploy       |-> Deploy(a),
     usage        |-> a.usage,
     keywords     |-> FilterKeywords(a.keywords),
     type         |-> Type(a, subs),
     subagent     |-> Subagent(a, subs),
     project      |-> Project(a, projects),
     connections  |-> Connections(a, idx)]

\* Line 132: catalogAgents.map(...)
Merge(cat, tr, subs, projects, idx) ==
    [i \in 1..Len(cat) |-> MergedAgent(cat[i], tr, subs, projects, idx)]

----------------------------------------------------------------------------
(* Aggregates (lines 157-182) *)

\* Line 160: catCounts[c] = (catCounts[c] || 0) + 1, catCounts kept as the
\* sequence of its entries in insertion order (the order of Object.entries).
CountCategory(counts, c) ==
    IF \E n \in 1..Len(counts) : counts[n].name = c
    THEN [n \in 1..Len(counts) |->
             IF counts[n].name = c
             THEN [name |-> c, count |-> counts[n].count + 1]
             ELSE counts[n]]
    ELSE Append(counts, [name |-> c, count |-> 1])

\* Lines 158-161
RECURSIVE CatCountsFrom(_, _, _)
CatCountsFrom(as, i, counts) ==
    IF i > Len(as) THEN counts
    ELSE CatCountsFrom(as, i + 1, CountCategory(counts, as[i].category))

\* Lines 162-167
Categories(as) ==
    LET counts == CatCountsFrom(as, 1, <<>>)
    IN  [n \in 1..Len(counts) |->
            [id    |-> ToLowerCase(counts[n].name),
             name  |-> counts[n].name,
             icon  |-> CategoryIcon(counts[n].name),
             count |-> counts[n].count]]

\* The deploy strings of the model in the order of Array.prototype.sort's
\* default comparison (UTF-16 code units); the stand-in of the Hangul key
\* comes last, as the key does.
CodeUnitOrder ==
    <<"Cloudflare", "Cloudflare Worker", "Fly.io", "Local", "Railway", "Render",
      "Render + GitHub Pages", "WSL", "WSL systemd", "Rokeol">>

Rank(d) == CHOOSE n \in 1..Len(CodeUnitOrder) : CodeUnitOrder[n] = d

\* Insertion of d into a sorted sequence.
RECURSIVE SortedInsert(_, _)
SortedInsert(s, d) ==
    IF s = <<>> THEN <<d>>
    ELSE IF Rank(d) < Rank(Head(s)) THEN <<d>> \o s
         ELSE <<Head(s)>> \o SortedInsert(Tail(s), d)

\* Array.prototype.sort() with the default comparison.
RECURSIVE Sort(_)
Sort(s) == IF s = <<>> THEN <<>> ELSE SortedInsert(Sort(Tail(s)), Head(s))

\* new Set(agents.map(a => a.deploy)), in insertion order.
RECURSIVE DeploySet(_, _, _)
DeploySet(as, i, set) ==
    IF i > Len(as) THEN set ELSE DeploySet(as, i + 1, SetAdd(set, as[i].deploy))

\* DeployTargets without the sort of line 170.
DeployTargetsUnsorted(as) == DeploySet(as, 1, <<>>)

\* Line 170
DeployTargets(as) == Sort(DeploySet(as, 1, <<>>))

\* as.filter(pred).length for the two filters of lines 177-178
CountSubagents(as) == Cardinality({i \in 1..Len(as) : as[i].type = "subagent"})

CountProjects(as) == Cardinality({i \in 1..Len(as) : as[i].project # Null})

\* Lines 173-182
Meta(as, now) ==
    [generatedAt |-> now,
     counts |-> [agents        |-> Len(as),
                 subagents     |-> CountSubagents(as),
                 projects      |-> CountProjects(as),
                 categories    |-> Len(Categories(as)),
                 deployTargets |-> Len(DeployTargets(as))]]

\* Line 184
Data(as, now) ==
    [meta          |-> Meta(as, now),
     categories    |-> Categories(as),
     deployTargets |-> DeployTargets(as),
     agents        |-> as]

----------------------------------------------------------------------------
(* Emitter (lines 186-190) *)

\* JSON.stringify leaves out a property whose value is undefined.  The only
\* property of the document that can be undefined is project.title (line 148).
JsonProject(p) ==
    IF p = Null THEN Null
    ELSE IF p.title = Undefined
         THEN [highlights |-> p.highlights, tags |-> p.tags, inMaster |-> p.inMaster]
         ELSE p

JsonAgent(a) == [a EXCEPT !.project = JsonProject(a.project)]

\* The JSON value JSON.stringify(d) denotes.
JsonValue(d) ==
    [d EXCEPT !.agents = [i \in 1..Len(d.agents) |-> JsonAgent(d.agents[i])]]

\* JSON.stringify(d, null, indent): a text, kept as its indentation and the
\* JSON value it denotes.
Stringify(d, indent) == [indent |-> indent, json |-> JsonValue(d)]

\* JSON.parse of such a text.
JSONparse(text) == text.json

NoFile == [exists |-> FALSE]

\* Line 187
AgentsJsonFile(d) == [exists |-> TRUE, text |-> Stringify(d, 2)]

\* Line 190
DataJsFile(d) ==
    [exists |-> TRUE,
     header |-> "// Auto-generated by build-data.js - do not edit",
     export |-> "DATA",
     text   |-> Stringify(d, 0)]

----------------------------------------------------------------------------
(* The inputs: the files build() reads *)

Ids == {"a", "b"}

\* The ids by position, for catalogs whose blocks carry distinct ids.
IdAt == <<"a", "b", "c", "d">>

\* An id of the architecture map that no catalog of the model carries.
Ghost == "x"

CategoryNames == {"Production", "Misc"}

\* "api", and a two-letter Hangul keyword (U+C790 U+B3D9).
KwApi == <<97, 112, 105>>
KwHangul == <<51088, 46041>>

Absent == [present |-> FALSE]

KeywordFields == {Absent,
                  [present |-> TRUE, items |-> <<KwApi>>],
                  [present |-> TRUE, items |-> <<KwHangul, KwApi>>]}

UsageFields == {Absent, [present |-> TRUE, items |-> <<"/run &lt;id&gt;">>]}

\* deploy as the optional group of line 20 captures it: undefined when the
\* field does not follow desc, '' when it is empty, a key of
\* DEPLOY_NORMALIZE, or another string.
DeployFields == {Undefined, "", "Render + GitHub Pages", "Fly.io"}

\* A block of the catalog text.  head: whether the expression of line 20
\* matches at the block (id, name, category and desc present, in this order).
Block(head, id, category, deploy, keywords, usage) ==
    [head |-> head, id |-> id, name |-> "Bot", category |-> category,
     desc |-> "raw", deploy |-> deploy, keywords |-> keywords, usage |-> usage]

PlainBlock(id) == Block(TRUE, id, "Production", Undefined, Absent, Absent)

\* Catalog texts that vary which blocks match, their ids and categories.
IdBlocks == {Block(h, i, c, Undefined, Absent, Absent) :
                h \in BOOLEAN, i \in Ids, c \in CategoryNames}

IdCatalogs == SeqsUpTo(IdBlocks, MaxBlocks)

\* Catalog texts of blocks with distinct ids that vary the optional fields.
FieldChoices == DeployFields \X KeywordFields \X UsageFields

FieldCatalogs ==
    UNION {{[i \in 1..n |-> Block(TRUE, IdAt[i], "Production", f[i][1], f[i][2], f[i][3])] :
               f \in [1..n -> FieldChoices]} : n \in 0..MaxBlocks}

DefaultCatalog == <<PlainBlock("a"), PlainBlock("b")>>

\* translations.json: an object of strings, keyed by id.
TranslationTables == UNION {[S -> {"", "Translated"}] : S \in SUBSET Ids}

\* architecture-map.json: { connections: [{ from, to: [...] }] }
Nodes == Ids \cup {Ghost}

\* The target lists of the model: none, one, or two different targets (a
\* repeated target arises from two edge lists of the same source).
ToLists ==
    {<<>>} \cup {<<n>> : n \in Nodes} \cup {p \in Nodes \X Nodes : p[1] # p[2]}

Edges == [from : Nodes, to : ToLists]

ArchMaps == {[connections |-> c] : c \in SeqsUpTo(Edges, MaxEdges)}

DefaultArchMap == [connections |-> <<[from |-> "a", to |-> <<"b">>]>>]

\* A well-formed JSON document that has no connections property.
ShapelessArchMap == [nodes |-> <<>>]

\* The files of ~/.claude/agents, in readdirSync's order.  md: the file name
\* ends with .md; fm: the content starts with a frontmatter block.
File(md, fm, name, model, tools) ==
    [md |-> md, fm |-> fm, name |-> name, model |-> model, tools |-> tools]

ToolFields == {Absent, [present |-> TRUE, parts |-> <<"Read ", " Grep">>]}

\* Files with a frontmatter block, of every name, model and tools field, and
\* two files the extractor passes over (no frontmatter; not a .md file) that
\* carry a name, a model and tools all the same.
Files ==
    {File(TRUE, TRUE, n, m, t) :
        n \in {Undefined, "a", "b"}, m \in {Undefined, "opus"}, t \in ToolFields}
    \cup {File(k[1], k[2], "a", "opus", [present |-> TRUE, parts |-> <<"Read ", " Grep">>]) :
             k \in {<<TRUE, FALSE>>, <<FALSE, TRUE>>}}

AgentDirs == SeqsUpTo(Files, MaxFiles)

SmallAgentDirs ==
    {<<>>,
     <<File(TRUE, TRUE, "a", "opus", Absent)>>,
     <<File(TRUE, TRUE, "b", Undefined, Absent)>>,
     <<File(TRUE, TRUE, "a", Undefined, Absent), File(TRUE, TRUE, "b", "opus", Absent)>>}

\* The blocks of portfolio/catalog.yml after the split of line 66.
PBlock(id, title, inMaster) ==
    [id |-> id, title |-> title, oneliner |-> "one", inMaster |-> inMaster,
     highlights |-> <<"shipped">>, tags |-> <<"node">>]

PBlocks == {PBlock(i, t, m) :
               i \in Ids \cup {Undefined}, t \in {Undefined, "Title"}, m \in BOOLEAN}

Portfolios == SeqsUpTo(PBlocks, MaxBlocks)

SmallPortfolios ==
    {<<>>,
     <<PBlock("a", "Title", TRUE)>>,
     <<PBlock("a", Undefined, FALSE)>>,
     <<PBlock("b", "Title", FALSE)>>}

\* A file: its status and, when it can be read, its content.
Ok(v) == [st |-> "ok", val |-> v]
Bad(st) == [st |-> st, val |-> <<>>]

Env(tr, am, cat, dir, pf) ==
    [translations |-> tr, archMap |-> am, catalog |-> cat, agentsDir |-> dir,
     portfolio |-> pf]

DefaultEnv ==
    Env(Ok(EmptyObj), Ok(DefaultArchMap), Ok(DefaultCatalog), Ok(<<>>), Ok(<<>>))

\* One resource missing or malformed, the others as in DefaultEnv.
FailEnvs ==
    {[DefaultEnv EXCEPT !.translations = Bad(st)] : st \in {"missing", "malformed"}}
    \cup {[DefaultEnv EXCEPT !.archMap = Bad(st)] : st \in {"missing", "malformed"}}
    \cup {[DefaultEnv EXCEPT !.archMap = Ok(ShapelessArchMap)]}
    \cup {[DefaultEnv EXCEPT !.catalog = Bad("missing")]}
    \cup {[DefaultEnv EXCEPT !.agentsDir = Bad("missing")]}
    \cup {[DefaultEnv EXCEPT !.portfolio = Bad("missing")]}

\* The catalog text varies.
CatalogEnvs ==
    {[DefaultEnv EXCEPT !.catalog = Ok(c)] : c \in IdCatalogs \cup FieldCatalogs}

\* The architecture map varies.
GraphEnvs == {[DefaultEnv EXCEPT !.archMap = Ok(m)] : m \in ArchMaps}

\* The translation table, the subagent files and the projects vary together.
JoinEnvs ==
    {Env(Ok(tr), Ok(DefaultArchMap), Ok(c), Ok(d), Ok(pf)) :
        tr \in TranslationTables,
        c \in {<<PlainBlock("a")>>, DefaultCatalog},
        d \in SmallAgentDirs,
        pf \in SmallPortfolios}

\* The portfolio text varies, or which catalog blocks match.
SourceEnvs ==
    {[DefaultEnv EXCEPT !.portfolio = Ok(pf)] : pf \in Portfolios}
    \cup {[DefaultEnv EXCEPT !.catalog = Ok(c)] : c \in IdCatalogs}

\* The subagent files vary.
SubagentEnvs == {[DefaultEnv EXCEPT !.agentsDir = Ok(d)] : d \in AgentDirs}

\* The values new Date().toISOString() takes in the model.
Clock == {"2026-01-01T00:00:00.000Z", "2026-01-02T00:00:00.000Z"}

----------------------------------------------------------------------------
(* The page before catalog.js runs (catalog.js lines 5-8) *)

\* null, the value of activeDeploy when no deploy filter is set.
NoDeploy == "<null>"

\* The page before initCatalog() has built the tabs, the pills and the grid.
\* tabs: the data-category of each tab button, the static "All" tab first;
\* pills: the text of each deploy pill; activeTabs, activePills: the positions
\* of the buttons that carry the class active; grid: the data-id of each card.
NoDom ==
    [loaded |-> FALSE, tabs |-> <<>>, pills |-> <<>>, activeTabs |-> {},
     activePills |-> {}, grid |-> <<>>, noResultsHidden |-> TRUE]

PageStart ==
    /\ allAgents = <<>>
    /\ activeCategory = "all"
    /\ activeDeploy = NoDeploy
    /\ searchQuery = <<>>
    /\ dom = NoDom

----------------------------------------------------------------------------
(* build() (lines 112-194) *)

Start ==
    /\ pc = "readTranslations"
    /\ translations = EmptyObj
    /\ archMap = EmptyObj
    /\ catalogAgents = <<>>
    /\ subagents = EmptyObj
    /\ portfolio = EmptyObj
    /\ connectionIndex = EmptyObj
    /\ agents = <<>>
    /\ data = EmptyObj
    /\ agentsJson = NoFile
    /\ dataJs = NoFile
    /\ error = ""
    /\ PageStart

\* An exception leaves build(): nothing after the throwing statement runs.
Throw(resource) == pc' = "failed" /\ error' = resource

\* Line 113
ReadTranslations ==
    /\ pc = "readTranslations"
    /\ IF fs.translations.st = "ok"
       THEN translations' = fs.translations.val /\ pc' = "readArchMap" /\ UNCHANGED error
       ELSE Throw("translations.json") /\ UNCHANGED translations
    /\ UNCHANGED page
    /\ UNCHANGED <<fs, archMap, catalogAgents, subagents, portfolio, connectionIndex,
                   agents, data, agentsJson, dataJs>>

\* ReadArchMap with the failure swallowed: build() goes on with an empty map.
ReadArchMapSwallowed ==
    /\ pc = "readArchMap"
    /\ archMap' = IF fs.archMap.st = "ok" THEN fs.archMap.val ELSE [connections |-> <<>>]
    /\ pc' = "parseCatalog"
    /\ UNCHANGED page
    /\ UNCHANGED <<fs, translations, catalogAgents, subagents, portfolio,
                   connectionIndex, agents, data, agentsJson, dataJs, error>>

\* Line 114
ReadArchMap ==
    /\ pc = "readArchMap"
    /\ IF fs.archMap.st = "ok"
       THEN archMap' = fs.archMap.val /\ pc' = "parseCatalog" /\ UNCHANGED error
       ELSE Throw("architecture-map.json") /\ UNCHANGED archMap
    /\ UNCHANGED page
    /\ UNCHANGED <<fs, translations, catalogAgents, subagents, portfolio,
                   connectionIndex, agents, data, agentsJson, dataJs>>

\* Line 116
ParseCatalog ==
    /\ pc = "parseCatalog"
    /\ IF fs.catalog.st = "ok"
       THEN catalogAgents' = parseCatalog(fs.catalog.val) /\ pc' = "parseSubagents"
            /\ UNCHANGED error
       ELSE Throw("agent-catalog.js") /\ UNCHANGED catalogAgents
    /\ UNCHANGED page
    /\ UNCHANGED <<fs, translations, archMap, subagents, portfolio, connectionIndex,
                   agents, data, agentsJson, dataJs>>

\* Line 117
ParseSubagents ==
    /\ pc = "parseSubagents"
    /\ IF fs.agentsDir.st = "ok"
       THEN subagents' = parseSubagents(fs.agentsDir.val) /\ pc' = "parsePortfolio"
            /\ UNCHANGED error
       ELSE Throw(".claude/agents") /\ UNCHANGED subagents
    /\ UNCHANGED page
    /\ UNCHANGED <<fs, translations, archMap, catalogAgents, portfolio,
                   connectionIndex, agents, data, agentsJson, dataJs>>

\* Line 118
ParsePortfolio ==
    /\ pc = "parsePortfolio"
    /\ IF fs.portfolio.st = "ok"
       THEN portfolio' = parsePortfolio(fs.portfolio.val) /\ pc' = "connections"
            /\ UNCHANGED error
       ELSE Throw("catalog.yml") /\ UNCHANGED portfolio
    /\ UNCHANGED page
    /\ UNCHANGED <<fs, translations, archMap, catalogAgents, subagents,
                   connectionIndex, agents, data, agentsJson, dataJs>>

\* Lines 120-129.  A document without a connections array makes line 122
\* throw a TypeError.
BuildConnectionIndex ==
    /\ pc = "connections"
    /\ IF "connections" \in DOMAIN archMap
       THEN connectionIndex' = ConnectionIndex(archMap.connections) /\ pc' = "merge"
            /\ UNCHANGED error
       ELSE Throw("architecture-map.json") /\ UNCHANGED connectionIndex
    /\ UNCHANGED page
    /\ UNCHANGED <<fs, translations, archMap, catalogAgents, subagents, portfolio,
                   agents, data, agentsJson, dataJs>>

\* Lines 131-155
MergeAgents ==
    /\ pc = "merge"
    /\ agents' = Merge(catalogAgents, translations, subagents, portfolio, connectionIndex)
    /\ pc' = "aggregate"
    /\ UNCHANGED page
    /\ UNCHANGED <<fs, translations, archMap, catalogAgents, subagents, portfolio,
                   connectionIndex, data, agentsJson, dataJs, error>>

\* Lines 157-184
Aggregate ==
    /\ pc = "aggregate"
    /\ \E now \in Clock : data' = Data(agents, now)
    /\ pc' = "writeAgentsJson"
    /\ UNCHANGED page
    /\ UNCHANGED <<fs, translations, archMap, catalogAgents, subagents, portfolio,
                   connectionIndex, agents, agentsJson, dataJs, error>>

\* Line 187.  writeFileSync throws when the file cannot be written.
WriteAgentsJson ==
    /\ pc = "writeAgentsJson"
    /\ \E written \in BOOLEAN :
          IF written
          THEN agentsJson' = AgentsJsonFile(data) /\ pc' = "writeDataJs" /\ UNCHANGED error
          ELSE Throw("agents.json") /\ UNCHANGED agentsJson
    /\ UNCHANGED page
    /\ UNCHANGED <<fs, translations, archMap, catalogAgents, subagents, portfolio,
                   connectionIndex, agents, data, dataJs>>

\* Lines 190-193
WriteDataJs ==
    /\ pc = "writeDataJs"
    /\ \E written \in BOOLEAN :
          IF written
          THEN dataJs' = DataJsFile(data) /\ pc' = "done" /\ UNCHANGED error
          ELSE Throw("data.js") /\ UNCHANGED dataJs
    /\ UNCHANGED page
    /\ UNCHANGED <<fs, translations, archMap, catalogAgents, subagents, portfolio,
                   connectionIndex, agents, data, agentsJson>>

Next ==
    \/ ReadTranslations
    \/ ReadArchMap
    \/ ParseCatalog
    \/ ParseSubagents
    \/ ParsePortfolio
    \/ BuildConnectionIndex
    \/ MergeAgents
    \/ Aggregate
    \/ WriteAgentsJson
    \/ WriteDataJs

\* build() on the joins: translations, subagents and projects of the agents
Init == fs \in FailEnvs \cup JoinEnvs \cup SourceEnvs /\ Start

Spec == Init /\ [][Next]_vars

\* build() on the catalog texts
InitCatalog == fs \in FailEnvs \cup CatalogEnvs /\ Start

SpecCatalog == InitCatalog /\ [][Next]_vars

\* build() on the architecture maps
InitGraph == fs \in FailEnvs \cup GraphEnvs /\ Start

SpecGraph == InitGraph /\ [][Next]_vars

\* build() on the subagent directories
InitSubagents == fs \in FailEnvs \cup SubagentEnvs /\ Start

SpecSubagents == InitSubagents /\ [][Next]_vars

----------------------------------------------------------------------------
(* Properties *)

\* The agents of the document written to agents.json.
Emitted == JSONparse(agentsJson.text).agents

\* The stages of build() after parseCatalog() has returned.
AfterCatalog ==
    {"parseSubagents", "parsePortfolio", "connections", "merge", "aggregate",
     "writeAgentsJson", "writeDataJs", "done"}

\* The indices of the catalog blocks the head expression matches, in order:
\* the k-th record of catalogAgents comes from block MatchedBlocks(src, 1)[k].
RECURSIVE MatchedBlocks(_, _)
MatchedBlocks(src, i) ==
    IF i > Len(src) THEN <<>>
    ELSE IF src[i].head THEN <<i>> \o MatchedBlocks(src, i + 1)
         ELSE MatchedBlocks(src, i + 1)

\* The catalog block the k-th record (and the k-th merged agent) comes from.
SourceBlock(k) == fs.catalog.val[MatchedBlocks(fs.catalog.val, 1)[k]]

\* C1: in the emitted agents, whenever b.id is in a.connections, a.id is in
\* b.connections, for every edge list of the architecture map.
C1_Symmetry ==
    agentsJson.exists =>
        \A i, j \in 1..Len(Emitted) :
            Emitted[j].id \in Range(Emitted[i].connections)
                => Emitted[i].id \in Range(Emitted[j].connections)

\* Two emitted agents are connected though the map lists the edge in one
\* direction only.
C1_Witness ==
    /\ agentsJson.exists
    /\ \E i, j \in 1..Len(Emitted) :
          /\ Emitted[i].id # Emitted[j].id
          /\ Emitted[j].id \in Range(Emitted[i].connections)
          /\ \A n \in 1..Len(fs.archMap.val.connections) :
                fs.archMap.val.connections[n].from # Emitted[j].id

\* C2: every id in the connections of an emitted agent is the id of an
\* emitted agent, also when an edge names an id that no catalog record has.
C2_NoDangling ==
    agentsJson.exists =>
        \A i \in 1..Len(Emitted) :
            \A c \in Range(Emitted[i].connections) :
                \E j \in 1..Len(Emitted) : Emitted[j].id = c

\* C3: the categories list has exactly one entry per category present among
\* the emitted agents, with the number of agents of that category as count,
\* and deployTargets is the sorted list of the distinct deploy values.
C3_AggregateConsistency ==
    agentsJson.exists =>
        LET d   == JSONparse(agentsJson.text)
            as  == d.agents
            cs  == d.categories
            dts == d.deployTargets
        IN  /\ \A i \in 1..Len(as) :
                  Cardinality({n \in 1..Len(cs) : cs[n].name = as[i].category}) = 1
            /\ \A n \in 1..Len(cs) :
                  /\ cs[n].count = Cardinality({i \in 1..Len(as) : as[i].category = cs[n].name})
                  /\ cs[n].count >= 1
            /\ Range(dts) = {as[i].deploy : i \in 1..Len(as)}
            /\ \A m, n \in 1..Len(dts) : m < n => Rank(dts[m]) < Rank(dts[n])

\* Two agents share a category and their deploy values appear in the agents
\* list in descending order.
C3_Witness ==
    /\ agentsJson.exists
    /\ \E i, j \in 1..Len(Emitted) :
          /\ i < j
          /\ Emitted[i].category = Emitted[j].category
          /\ Rank(Emitted[j].deploy) < Rank(Emitted[i].deploy)

\* The keys of the subagent mapping: the frontmatter names of the .md files.
FrontmatterNames ==
    {fs.agentsDir.val[n].name : n \in {m \in 1..Len(fs.agentsDir.val) :
        /\ fs.agentsDir.val[m].md
        /\ fs.agentsDir.val[m].fm
        /\ Truthy(fs.agentsDir.val[m].name)}}

\* The keys of the project mapping: the ids of the portfolio blocks.
ProjectIds ==
    {fs.portfolio.val[n].id : n \in {m \in 1..Len(fs.portfolio.val) :
        fs.portfolio.val[m].id # Undefined}}

\* C4: an emitted agent has type "subagent" and a non-null subagent exactly
\* when the subagent mapping has its id as a key, and type "standalone"
\* otherwise; it has a non-null project exactly when the project mapping has
\* an entry for its id.
C4_JoinCorrectness ==
    agentsJson.exists =>
        /\ DOMAIN subagents = FrontmatterNames
        /\ DOMAIN portfolio = ProjectIds
        /\ \A i \in 1..Len(Emitted) :
              LET a == Emitted[i]
              IN  /\ a.type = "subagent" <=> a.id \in DOMAIN subagents
                  /\ a.type = "standalone" <=> a.id \notin DOMAIN subagents
                  /\ a.subagent # Null <=> a.id \in DOMAIN subagents
                  /\ a.project # Null <=> a.id \in DOMAIN portfolio

\* One emitted agent is a subagent without a project and another is
\* standalone with a project.
C4_Witness ==
    /\ agentsJson.exists
    /\ \E i, j \in 1..Len(Emitted) :
          /\ Emitted[i].type = "subagent" /\ Emitted[i].project = Null
          /\ Emitted[j].type = "standalone" /\ Emitted[j].project # Null

\* C5: the ids of the emitted agents are pairwise different and each is the
\* id of its catalog block, also when two blocks carry the same id.
C5_IdUnique ==
    agentsJson.exists =>
        /\ \A i, j \in 1..Len(Emitted) : i # j => Emitted[i].id # Emitted[j].id
        /\ \A k \in 1..Len(Emitted) : Emitted[k].id = SourceBlock(k).id

\* C6: a block without a keywords (usage) field yields a record with empty
\* keywords (usage), whatever blocks follow it.
C6_ExtractorDefaults ==
    pc \in AfterCatalog =>
        \A k \in 1..Len(catalogAgents) :
            /\ ~SourceBlock(k).keywords.present => catalogAgents[k].keywords = <<>>
            /\ ~SourceBlock(k).usage.present => catalogAgents[k].usage = <<>>

\* The statements of build() that read an input, in program order, with the
\* resource each one names when it throws.
ReadStages ==
    <<"readTranslations", "readArchMap", "parseCatalog", "parseSubagents",
      "parsePortfolio", "connections">>

StageIndex(stage) == CHOOSE n \in 1..Len(ReadStages) : ReadStages[n] = stage

\* A reference file is missing or malformed (no JSON, or no connections array).
TranslationsBad == fs.translations.st # "ok"
ArchMapUnreadable == fs.archMap.st # "ok"
ArchMapShapeless == fs.archMap.st = "ok" /\ "connections" \notin DOMAIN fs.archMap.val

\* An input source file is missing.
CatalogMissing == fs.catalog.st # "ok"
AgentsDirMissing == fs.agentsDir.st # "ok"
PortfolioMissing == fs.portfolio.st # "ok"

\* An input source file is malformed: a catalog block the head expression
\* does not match, a .md file without frontmatter or name, a portfolio block
\* without an id.
SourceMalformed ==
    \/ /\ fs.catalog.st = "ok"
       /\ \E n \in 1..Len(fs.catalog.val) : ~fs.catalog.val[n].head
    \/ /\ fs.agentsDir.st = "ok"
       /\ \E n \in 1..Len(fs.agentsDir.val) :
             /\ fs.agentsDir.val[n].md
             /\ ~(fs.agentsDir.val[n].fm /\ Truthy(fs.agentsDir.val[n].name))
    \/ /\ fs.portfolio.st = "ok"
       /\ \E n \in 1..Len(fs.portfolio.val) : fs.portfolio.val[n].id = Undefined

NothingWritten == agentsJson = NoFile /\ dataJs = NoFile

\* build() has not got past the read of stage `stage`: it is at or before
\* it, or it has thrown on one of the inputs.
StoppedBy(stage) ==
    \/ pc \in {ReadStages[n] : n \in 1..StageIndex(stage)}
    \/ /\ pc = "failed"
       /\ error \in {"translations.json", "architecture-map.json", "agent-catalog.js",
                     ".claude/agents", "catalog.yml"}

\* No output is written before every read and parse has succeeded.
WritesFollowReads ==
    ~NothingWritten =>
        /\ pc \in {"writeDataJs", "done", "failed"}
        /\ error \in {"", "data.js"}
        /\ ~TranslationsBad /\ ~ArchMapUnreadable /\ ~ArchMapShapeless
        /\ ~CatalogMissing /\ ~AgentsDirMissing /\ ~PortfolioMissing

\* C7 as stated: when a reference file or an input source file is missing or
\* malformed, build() aborts and neither output has been written; no write
\* precedes a read or parse that can fail.
C7_FailFastAsStated ==
    /\ (\/ TranslationsBad \/ ArchMapUnreadable \/ ArchMapShapeless
        \/ CatalogMissing \/ AgentsDirMissing \/ PortfolioMissing
        \/ SourceMalformed)
          => NothingWritten /\ pc # "done"
    /\ WritesFollowReads

\* C7, amended: when a reference file is missing or malformed, or an input
\* source file is missing, build() aborts at the statement that reads it and
\* neither output has been written; no write precedes a read or parse that
\* can fail.  (A malformed source file does not abort the build.)
C7_FailFast ==
    /\ TranslationsBad => NothingWritten /\ StoppedBy("readTranslations")
    /\ ArchMapUnreadable => NothingWritten /\ StoppedBy("readArchMap")
    /\ CatalogMissing => NothingWritten /\ StoppedBy("parseCatalog")
    /\ AgentsDirMissing => NothingWritten /\ StoppedBy("parseSubagents")
    /\ PortfolioMissing => NothingWritten /\ StoppedBy("parsePortfolio")
    /\ ArchMapShapeless => NothingWritten /\ StoppedBy("connections")
    /\ WritesFollowReads

\* build() has thrown on a malformed architecture-map.json, with nothing
\* written.
C7_Witness ==
    /\ fs.archMap.st = "malformed"
    /\ pc = "failed"
    /\ error = "architecture-map.json"
    /\ NothingWritten

\* C8: parsing agents.json back yields the in-memory data object, and the
\* document embedded in data.js is the same model.
C8_RoundTrip ==
    /\ agentsJson.exists => JSONparse(agentsJson.text) = data
    /\ dataJs.exists => JSONparse(dataJs.text) = data

\* C9: a record without a deploy field has raw deploy "Local"; the emitted
\* deploy is the table's image of the raw deploy when the raw deploy is a key
\* of DEPLOY_NORMALIZE, and the raw deploy otherwise.
C9_DeployNormalization ==
    /\ pc \in AfterCatalog =>
          \A k \in 1..Len(catalogAgents) :
              SourceBlock(k).deploy = Undefined => catalogAgents[k].deploy = "Local"
    /\ agentsJson.exists =>
          \A k \in 1..Len(Emitted) :
              LET raw == catalogAgents[k].deploy
              IN  Emitted[k].deploy =
                      IF raw \in DOMAIN DEPLOY_NORMALIZE THEN DEPLOY_NORMALIZE[raw] ELSE raw

\* One emitted agent comes from a block without deploy, another from a block
\* whose deploy is a key of the table with a different image.
C9_Witness ==
    /\ agentsJson.exists
    /\ \E i, j \in 1..Len(Emitted) :
          /\ SourceBlock(i).deploy = Undefined /\ Emitted[i].deploy = "Local"
          /\ catalogAgents[j].deploy = "Render + GitHub Pages"
          /\ Emitted[j].deploy = "Render"

\* C10: the emitted description is the translation table's entry for the id
\* whenever the table has one (the empty string included), and the catalog's
\* desc only when it has none.
C10_DescriptionOverride ==
    agentsJson.exists =>
        \A k \in 1..Len(Emitted) :
            Emitted[k].description =
                IF Emitted[k].id \in DOMAIN translations
                THEN translations[Emitted[k].id]
                ELSE catalogAgents[k].desc

----------------------------------------------------------------------------
(* build() on catalogs whose keywords are written in several scripts *)

\* Three-letter keywords in Cyrillic (U+0431 U+043E U+0442) and in Katakana
\* (U+30DC U+30C3 U+30C8).
KwCyrillic == <<1073, 1086, 1090>>
KwKana == <<12508, 12483, 12488>>

Keywords == {KwApi, KwHangul, KwCyrillic, KwKana}

KeywordLists ==
    {Absent}
    \cup {[present |-> TRUE, items |-> <<k>>] : k \in Keywords}
    \cup {[present |-> TRUE, items |-> <<k, l>>] : k \in Keywords, l \in Keywords}

KeywordCatalogs ==
    UNION {{[i \in 1..n |-> Block(TRUE, IdAt[i], "Production", Undefined, f[i], Absent)] :
               f \in [1..n -> KeywordLists]} : n \in 0..MaxBlocks}

KeywordEnvs == {[DefaultEnv EXCEPT !.catalog = Ok(c)] : c \in KeywordCatalogs}

InitKeywords == fs \in FailEnvs \cup KeywordEnvs /\ Start

SpecKeywords == InitKeywords /\ [][Next]_vars

\* A code unit of the Latin script: Basic Latin to Latin Extended-B.
IsLatin(c) == c <= 591

OnlyLatin(k) == \A n \in 1..Len(k) : IsLatin(k[n])

\* The subsequence of the keywords that contain only Latin characters.
RECURSIVE LatinKeywords(_)
LatinKeywords(ks) ==
    IF ks = <<>> THEN <<>>
    ELSE IF OnlyLatin(Head(ks)) THEN <<Head(ks)>> \o LatinKeywords(Tail(ks))
         ELSE LatinKeywords(Tail(ks))

\* C11: the emitted keywords are the record's keywords that contain only
\* Latin characters, in order; a keyword with a character of any other script
\* is left out.
C11_KeywordFiltering ==
    agentsJson.exists =>
        \A k \in 1..Len(Emitted) :
            Emitted[k].keywords = LatinKeywords(catalogAgents[k].keywords)

----------------------------------------------------------------------------
(* parseSubagents on the subagent directories *)

\* The stages of build() after parseSubagents() has returned.
AfterSubagents == AfterCatalog \ {"parseSubagents"}

\* The positions, in enumeration order, of the .md files that have a
\* frontmatter block and a name.
NamedFiles ==
    {n \in 1..Len(fs.agentsDir.val) :
        /\ fs.agentsDir.val[n].md
        /\ fs.agentsDir.val[n].fm
        /\ Truthy(fs.agentsDir.val[n].name)}

\* The last file that yields the name k.
LastNamed(k) ==
    LET ns == {n \in NamedFiles : fs.agentsDir.val[n].name = k}
    IN  fs.agentsDir.val[CHOOSE n \in ns : \A m \in ns : m <= n]

\* C12: the mapping has an entry exactly for the names the .md files with a
\* frontmatter block yield, and the entry of a name holds the model and the
\* tools of the last file that yields it, with the defaults applied to that
\* file alone; the other files add and change nothing.
C12_LastWriteWins ==
    pc \in AfterSubagents =>
        /\ DOMAIN subagents = {fs.agentsDir.val[n].name : n \in NamedFiles}
        /\ \A k \in DOMAIN subagents :
              LET f == LastNamed(k)
              IN  /\ subagents[k].model =
                         (IF f.model = Undefined \/ f.model = "" THEN "sonnet" ELSE f.model)
                  /\ subagents[k].tools =
                         (IF f.tools.present
                          THEN [n \in 1..Len(f.tools.parts) |-> Trim(f.tools.parts[n])]
                          ELSE <<>>)

\* Two files yield the same name; the first has a model and tools, the last
\* has neither, and the entry holds the defaults.
C12_Witness ==
    /\ pc \in AfterSubagents
    /\ Len(fs.agentsDir.val) = 2
    /\ NamedFiles = {1, 2}
    /\ fs.agentsDir.val[1].name = "a" /\ fs.agentsDir.val[2].name = "a"
    /\ fs.agentsDir.val[1].model = "opus" /\ fs.agentsDir.val[1].tools.present
    /\ fs.agentsDir.val[2].model = Undefined /\ ~fs.agentsDir.val[2].tools.present
    /\ subagents["a"] = [model |-> "sonnet", tools |-> <<>>]

----------------------------------------------------------------------------
(* The catalog page (public/js/catalog.js) *)

\* The UTF-16 code units of the strings of the model.
Chars(str) ==
    CASE str = ""           -> <<>>
      [] str = "a"          -> <<97>>
      [] str = "b"          -> <<98>>
      [] str = "c"          -> <<99>>
      [] str = "d"          -> <<100>>
      [] str = "Bot"        -> <<66, 111, 116>>
      [] str = "raw"        -> <<114, 97, 119>>
      [] str = "Translated" -> <<84, 114, 97, 110, 115, 108, 97, 116, 101, 100>>

\* String.prototype.toLowerCase on code units: the model's only cased
\* characters are the ASCII letters.
LowerUnits(u) ==
    [n \in 1..Len(u) |-> IF u[n] >= 65 /\ u[n] <= 90 THEN u[n] + 32 ELSE u[n]]

\* String.prototype.includes
Includes(hay, needle) ==
    \E off \in 0..Len(hay) :
        /\ off + Len(needle) <= Len(hay)
        /\ \A n \in 1..Len(needle) : hay[off + n] = needle[n]

\* a.keywords.join(' ')
RECURSIVE JoinSpace(_)
JoinSpace(ks) ==
    IF ks = <<>> THEN <<>>
    ELSE IF Len(ks) = 1 THEN ks[1]
         ELSE ks[1] \o <<32>> \o JoinSpace(Tail(ks))

\* Line 72
Haystack(a) ==
    LowerUnits(Chars(a.id) \o <<32>> \o Chars(a.name) \o <<32>> \o Chars(a.description)
               \o <<32>> \o JoinSpace(a.keywords))

\* Lines 69-75: the predicate of the filter.
Shown(a, category, deploy, query) ==
    IF category # "all" /\ ToLowerCase(a.category) # category THEN FALSE
    ELSE IF deploy # NoDeploy /\ deploy # "" /\ a.deploy # deploy THEN FALSE
    ELSE IF query # <<>> THEN Includes(Haystack(a), query)
    ELSE TRUE

\* Lines 67-77
RECURSIVE filterAgents(_, _, _, _)
filterAgents(all, category, deploy, query) ==
    IF all = <<>> THEN <<>>
    ELSE IF Shown(Head(all), category, deploy, query)
         THEN <<Head(all)>> \o filterAgents(Tail(all), category, deploy, query)
         ELSE filterAgents(Tail(all), category, deploy, query)

\* Lines 79-113: the page after render(), for the given filter state.
render(d, all, category, deploy, query) ==
    LET filtered == filterAgents(all, category, deploy, query)
    IN  [d EXCEPT !.grid = [n \in 1..Len(filtered) |-> filtered[n].id],
                  !.noResultsHidden = (Len(filtered) # 0)]

\* The document data.js exports (app.js line 5).
DATA == JSONparse(dataJs.text)

\* Lines 10-15, run once by app.js when the page has loaded.  The class of
\* the static "All" tab is what the page's markup gives it.
initCatalog ==
    /\ dataJs.exists
    /\ ~dom.loaded
    /\ allAgents' = DATA.agents
    /\ \E allActive \in BOOLEAN :
          dom' = render([loaded          |-> TRUE,
                         tabs            |-> <<"all">> \o [n \in 1..Len(DATA.categories) |->
                                                              DATA.categories[n].id],
                         pills           |-> DATA.deployTargets,
                         activeTabs      |-> IF allActive THEN {1} ELSE {},
                         activePills     |-> {},
                         grid            |-> <<>>,
                         noResultsHidden |-> TRUE],
                        DATA.agents, activeCategory, activeDeploy, searchQuery)
    /\ UNCHANGED <<activeCategory, activeDeploy, searchQuery>>
    /\ UNCHANGED <<fs, pc, translations, archMap, catalogAgents, subagents, portfolio,
                   connectionIndex, agents, data, agentsJson, dataJs, error>>

\* Lines 24-29: a click on the tab of a category.
ClickCategoryTab ==
    /\ dom.loaded
    /\ \E t \in 2..Len(dom.tabs) :
          /\ activeCategory' = dom.tabs[t]
          /\ dom' = render([dom EXCEPT !.activeTabs = {t}],
                           allAgents, dom.tabs[t], activeDeploy, searchQuery)
    /\ UNCHANGED <<allAgents, activeDeploy, searchQuery>>
    /\ UNCHANGED <<fs, pc, translations, archMap, catalogAgents, subagents, portfolio,
                   connectionIndex, agents, data, agentsJson, dataJs, error>>

\* Lines 33-38: a click on the "All" tab.
ClickAllTab ==
    /\ dom.loaded
    /\ activeCategory' = "all"
    /\ dom' = render([dom EXCEPT !.activeTabs = {1}],
                     allAgents, "all", activeDeploy, searchQuery)
    /\ UNCHANGED <<allAgents, activeDeploy, searchQuery>>
    /\ UNCHANGED <<fs, pc, translations, archMap, catalogAgents, subagents, portfolio,
                   connectionIndex, agents, data, agentsJson, dataJs, error>>

\* ClickDeployPill without line 53: the other pills keep their class.
ClickDeployPillKeepsOthers(p) ==
    /\ dom.loaded
    /\ p \in 1..Len(dom.pills)
    /\ IF activeDeploy = dom.pills[p]
       THEN /\ activeDeploy' = NoDeploy
            /\ dom' = render([dom EXCEPT !.activePills = @ \ {p}],
                             allAgents, activeCategory, NoDeploy, searchQuery)
       ELSE /\ activeDeploy' = dom.pills[p]
            /\ dom' = render([dom EXCEPT !.activePills = @ \cup {p}],
                             allAgents, activeCategory, dom.pills[p], searchQuery)
    /\ UNCHANGED <<allAgents, activeCategory, searchQuery>>
    /\ UNCHANGED <<fs, pc, translations, archMap, catalogAgents, subagents, portfolio,
                   connectionIndex, agents, data, agentsJson, dataJs, error>>

\* Lines 47-57: a click on deploy pill p.
ClickDeployPill(p) ==
    /\ dom.loaded
    /\ p \in 1..Len(dom.pills)
    /\ IF activeDeploy = dom.pills[p]
       THEN /\ activeDeploy' = NoDeploy
            /\ dom' = render([dom EXCEPT !.activePills = @ \ {p}],
                             allAgents, activeCategory, NoDeploy, searchQuery)
       ELSE /\ activeDeploy' = dom.pills[p]
            /\ dom' = render([dom EXCEPT !.activePills = {p}],
                             allAgents, activeCategory, dom.pills[p], searchQuery)
    /\ UNCHANGED <<allAgents, activeCategory, searchQuery>>
    /\ UNCHANGED <<fs, pc, translations, archMap, catalogAgents, subagents, portfolio,
                   connectionIndex, agents, data, agentsJson, dataJs, error>>

ClickDeploy == \E p \in 1..Len(dom.pills) : ClickDeployPill(p)

\* The texts typed into the search box: nothing, "Bot", "api", "a b".
Queries == {<<>>, <<66, 111, 116>>, <<97, 112, 105>>, <<97, 32, 98>>}

\* Lines 62-65, called by app.js with the value of the search box.
setSearch ==
    /\ dom.loaded
    /\ \E q \in Queries :
          /\ searchQuery' = LowerUnits(q)
          /\ dom' = render(dom, allAgents, activeCategory, activeDeploy, LowerUnits(q))
    /\ UNCHANGED <<allAgents, activeCategory, activeDeploy>>
    /\ UNCHANGED <<fs, pc, translations, archMap, catalogAgents, subagents, portfolio,
                   connectionIndex, agents, data, agentsJson, dataJs, error>>

\* build(), then the page that imports its data.js.
NextPage ==
    \/ Next
    \/ initCatalog
    \/ ClickCategoryTab
    \/ ClickAllTab
    \/ ClickDeploy
    \/ setSearch

\* Catalogs of blocks with distinct ids that vary category, deploy and keywords.
PageChoices ==
    CategoryNames \X {Undefined, "Render + GitHub Pages"}
        \X {Absent, [present |-> TRUE, items |-> <<KwApi>>]}

PageCatalogs ==
    UNION {{[i \in 1..n |-> Block(TRUE, IdAt[i], f[i][1], f[i][2], f[i][3], Absent)] :
               f \in [1..n -> PageChoices]} : n \in 0..MaxBlocks}

PageEnvs == {[DefaultEnv EXCEPT !.catalog = Ok(c)] : c \in PageCatalogs}

InitPage == fs \in FailEnvs \cup PageEnvs /\ Start

SpecPage == InitPage /\ [][NextPage]_vars

----------------------------------------------------------------------------
(* C13: catalog filter state *)

\* Agent a matches the category, the deploy target and the query together.
Matches(a) ==
    /\ activeCategory = "all" \/ ToLowerCase(a.category) = activeCategory
    /\ activeDeploy = NoDeploy \/ a.deploy = activeDeploy
    /\ Includes(Haystack(a), searchQuery)

\* The ids of the matching agents, in catalog order.
RECURSIVE MatchingIds(_)
MatchingIds(all) ==
    IF all = <<>> THEN <<>>
    ELSE (IF Matches(Head(all)) THEN <<Head(all).id>> ELSE <<>>) \o MatchingIds(Tail(all))

\* The rendered cards are exactly the matching agents, the query is lower
\* case, and at most one deploy pill is active: the one of activeDeploy.
FilterStateConsistent ==
    dom.loaded =>
        /\ dom.grid = MatchingIds(allAgents)
        /\ dom.noResultsHidden = (dom.grid # <<>>)
        /\ searchQuery = LowerUnits(searchQuery)
        /\ Cardinality(dom.activePills) <= 1
        /\ \A p \in 1..Len(dom.pills) : p \in dom.activePills <=> dom.pills[p] = activeDeploy
        /\ activeDeploy = NoDeploy \/ \E p \in 1..Len(dom.pills) : dom.pills[p] = activeDeploy

\* A click on the active deploy pill clears the deploy filter and leaves
\* category and search as they were.
ActivePillClickClears ==
    \A p \in 1..Len(dom.pills) :
        (activeDeploy = dom.pills[p] /\ ClickDeployPill(p)) =>
            /\ activeDeploy' = NoDeploy
            /\ activeCategory' = activeCategory
            /\ searchQuery' = searchQuery

\* C13: after any sequence of category-tab clicks, deploy-pill clicks and
\* setSearch calls the rendered cards are exactly the agents matching the
\* active category (or all), the active deploy target (if any) and the
\* lower-cased query together; at most one deploy target is active, and a
\* click on the active deploy pill clears the deploy filter while leaving
\* category and search unchanged.
C13_FilterState == []FilterStateConsistent /\ [][ActivePillClickClears]_vars

\* All three filters are set and they select some, but not all, of the agents.
C13_Witness ==
    /\ dom.loaded
    /\ activeCategory # "all"
    /\ activeDeploy # NoDeploy
    /\ searchQuery # <<>>
    /\ dom.grid # <<>>
    /\ Len(dom.grid) < Len(allAgents)

====
